---- MODULE Spec2Model ----
(***************************************************************************)
(* Wedding-RSVP: the registration form (forms.py), the RSVP table and its  *)
(* code generator (database.py) and the two request handlers that write    *)
(* the table (views.py: register_rsvp, manage_rsvp).                       *)
(*                                                                         *)
(* Strings are sequences of one-character strings.  A request is split at  *)
(* its database statements, so that requests of different clients          *)
(* interleave where the code lets them.  The remarks column and the two    *)
(* timestamps are left out: no handler reads them back.                    *)
(***************************************************************************)
EXTENDS Integers, Sequences, FiniteSets, TLC

VARIABLES store, req

vars == <<store, req>>

(***************************************************************************)
(* Python values                                                           *)
(***************************************************************************)

\* Python's None where a string is expected.
None == <<"None">>

\* A form field that the POST body does not contain (raw_data == []).
Absent == <<"Absent">>

\* A NULL in a nullable Boolean column; a value b is stored as <<b>>.
Null == <<>>

Whitespace == {" "}

LowerOf == [c \in {"A", "B"} |-> IF c = "A" THEN "a" ELSE "b"]

RECURSIVE LStrip(_)
LStrip(s) ==
    IF s # <<>> /\ Head(s) \in Whitespace THEN LStrip(Tail(s)) ELSE s

RECURSIVE RStrip(_)
RStrip(s) ==
    IF s # <<>> /\ s[Len(s)] \in Whitespace
    THEN RStrip(SubSeq(s, 1, Len(s) - 1))
    ELSE s

\* forms.py lower(): None has no .lower and passes through.
lower(value) ==
    IF value = None
    THEN None
    ELSE [i \in 1..Len(value) |->
            IF value[i] \in DOMAIN LowerOf THEN LowerOf[value[i]] ELSE value[i]]

\* forms.py strip_value()
strip_value(value) ==
    IF value = None THEN None ELSE RStrip(LStrip(value))

\* forms.py value_or_none(): the empty string is falsy.
value_or_none(value) ==
    IF value # None /\ value # <<>> THEN value ELSE None

(***************************************************************************)
(* The RSVP table (database.py, class RSVP)                                *)
(***************************************************************************)

RSVP_CODE_LENGTH == 4

NAME_MAX_LENGTH == 50

EMAIL_MAX_LENGTH == 254

\* string.ascii_uppercase, the population of random.SystemRandom().choice.
ascii_uppercase ==
    {"A", "B", "C", "D", "E", "F", "G", "H", "I", "J", "K", "L", "M",
     "N", "O", "P", "Q", "R", "S", "T", "U", "V", "W", "X", "Y", "Z"}

GuestColumns ==
    {"guest_first_name", "guest_last_name", "guest_present",
     "guest_present_ceremony", "guest_present_reception",
     "guest_present_dinner", "guest_email", "guest_diet_meat",
     "guest_diet_fish", "guest_diet_vega"}

PartnerColumns ==
    {"partner_first_name", "partner_last_name", "partner_diet_meat",
     "partner_diet_fish", "partner_diet_vega"}

Columns == {"id", "rsvp_code", "with_partner"} \cup GuestColumns \cup PartnerColumns

\* RSVP(): a new instance, no attribute set yet.  The partner columns show
\* the column defaults that the INSERT applies when populate_obj leaves them
\* unset ("" and NULL); guest_present stands for the unset None, which every
\* reader of it treats as false.
NewRSVP(with_partner) ==
    [id |-> 0, rsvp_code |-> <<>>, with_partner |-> with_partner,
     guest_first_name |-> <<>>, guest_last_name |-> <<>>,
     guest_present |-> FALSE, guest_present_ceremony |-> FALSE,
     guest_present_reception |-> FALSE, guest_present_dinner |-> FALSE,
     guest_email |-> None, guest_diet_meat |-> FALSE,
     guest_diet_fish |-> FALSE, guest_diet_vega |-> FALSE,
     partner_first_name |-> <<>>, partner_last_name |-> <<>>,
     partner_diet_meat |-> Null, partner_diet_fish |-> Null,
     partner_diet_vega |-> Null]

\* RSVP.get_by_rsvp_code: the rows the filter matches (.first() takes one).
get_by_rsvp_code(rows, rsvp_code) == {row \in rows : row.rsvp_code = rsvp_code}

\* RSVP.get_by_guest_email
get_by_guest_email(rows, guest_email) == {row \in rows : row.guest_email = guest_email}

\* The id column: an INTEGER PRIMARY KEY of SQLite takes the largest id plus one.
NewId(rows) ==
    IF rows = {} THEN 1
    ELSE (CHOOSE i \in {row.id : row \in rows} :
            \A row \in rows : row.id <= i) + 1

\* rsvp_code without unique=True.
UniqueCode_dropped(row, others) == TRUE

\* unique=True on rsvp_code, and on guest_email, where NULLs never collide:
\* may `row` be written next to the other rows of the table?
UniqueCode(row, others) == \A o \in others : o.rsvp_code # row.rsvp_code

\* guest_email without unique=True.
UniqueEmail_dropped(row, others) == TRUE

UniqueEmail(row, others) ==
    row.guest_email = None \/ \A o \in others : o.guest_email # row.guest_email

ConstraintsHold(row, others) == UniqueCode(row, others) /\ UniqueEmail(row, others)

(***************************************************************************)
(* The form (forms.py, class RSVPForm)                                     *)
(***************************************************************************)

\* RadioField guest_present: coerce=lambda value: str(value) == str(True)
coerce(value) == value = <<"True">>

\* BooleanField.process_formdata: no value, or one of false_values, is False.
BooleanData(raw) == ~(raw = Absent \/ raw = <<>> \/ raw = <<"false">>)

\* Field.process for every field of the form: the POSTed value, or the
\* object's value when the body has none, run through the field's filters.
FormData(sub, obj) ==
    [guest_first_name |-> strip_value(sub.guest_first_name),
     guest_last_name |-> strip_value(sub.guest_last_name),
     guest_present |->
        IF sub.guest_present = Absent
        THEN obj.guest_present
        ELSE coerce(sub.guest_present),
     guest_present_ceremony |-> BooleanData(sub.guest_present_ceremony),
     guest_present_reception |-> BooleanData(sub.guest_present_reception),
     guest_present_dinner |-> BooleanData(sub.guest_present_dinner),
     guest_email |-> lower(value_or_none(strip_value(sub.guest_email))),
     guest_diet_meat |-> BooleanData(sub.guest_diet_meat),
     guest_diet_fish |-> BooleanData(sub.guest_diet_fish),
     guest_diet_vega |-> BooleanData(sub.guest_diet_vega),
     partner_first_name |-> strip_value(sub.partner_first_name),
     partner_last_name |-> strip_value(sub.partner_last_name),
     partner_diet_meat |-> BooleanData(sub.partner_diet_meat),
     partner_diet_fish |-> BooleanData(sub.partner_diet_fish),
     partner_diet_vega |-> BooleanData(sub.partner_diet_vega)]

\* The form that keeps the partner fields whoever comes.
FormFields_kept(with_partner) == GuestColumns \cup PartnerColumns

\* create_rsvp_form: the fields of the form; the partner fields are deleted
\* from it when the guest comes alone.
FormFields(with_partner) ==
    IF with_partner THEN GuestColumns \cup PartnerColumns ELSE GuestColumns

\* wtforms InputRequired: looks at the raw input, not at the filtered data.
InputRequired(raw) == raw # Absent /\ raw # <<>>

\* wtforms Optional (InputOptional): no input, or only whitespace, ends the
\* field's validation without an error.
InputOptionalStops(raw) == raw = Absent \/ strip_value(raw) = <<>>

\* wtforms Length(max=...)
Length(data, max) ==
    (IF data = None \/ data = <<>> THEN 0 ELSE Len(data)) <= max

\* An Email() that lets a value of None through.
Email_lenient(data) ==
    data = None \/ \E i \in 1..Len(data) : data[i] = "@"

\* wtforms Email(): one "@" between a non-empty local part and a non-empty
\* domain, and no whitespace; None is not an address.
Email(data) ==
    /\ data # None
    /\ \E i \in 1..Len(data) :
        /\ data[i] = "@"
        /\ 1 < i
        /\ i < Len(data)
        /\ \A j \in 1..Len(data) : data[j] = "@" => j = i
    /\ \A j \in 1..Len(data) : data[j] \notin Whitespace

\* RequiredIfTruthy.__call__: InputRequired when the other field is truthy,
\* InputOptional otherwise.  "error": StopValidation with the message;
\* "stop": StopValidation without one; "pass": the chain goes on.
RequiredIfTruthy(other_data, raw) ==
    IF other_data = TRUE
    THEN (IF InputRequired(raw) THEN "pass" ELSE "error")
    ELSE (IF InputOptionalStops(raw) THEN "stop" ELSE "pass")

\* validators=[InputRequired(), Length(max=50)]
NameErrors(raw, data) ==
    IF ~InputRequired(raw) THEN {"required"}
    ELSE IF ~Length(data, NAME_MAX_LENGTH) THEN {"too_long"}
    ELSE {}

\* validators=[RequiredIfTruthy("guest_present"), Length(max=50)]
PartnerNameErrors(raw, data, present) ==
    CASE RequiredIfTruthy(present, raw) = "error" -> {"required"}
      [] RequiredIfTruthy(present, raw) = "stop" -> {}
      [] OTHER -> IF ~Length(data, NAME_MAX_LENGTH) THEN {"too_long"} ELSE {}

\* The lookup made whether or not the value has changed.
validate_guest_email_always(data, object_data, rows) ==
    IF data # None
    THEN (IF get_by_guest_email(rows, data) # {} THEN {"email_taken"} ELSE {})
    ELSE {}

\* RSVPForm.validate_guest_email: unique, if the value has changed.
validate_guest_email(data, object_data, rows) ==
    IF data # None /\ data # object_data
    THEN (IF get_by_guest_email(rows, data) # {} THEN {"email_taken"} ELSE {})
    ELSE {}

\* validators=[RequiredIfTruthy("guest_present"), Length(max=254), Email()],
\* then the inline validate_guest_email.
EmailErrors(raw, data, present, object_data, rows) ==
    CASE RequiredIfTruthy(present, raw) = "error" -> {"required"}
      [] RequiredIfTruthy(present, raw) = "stop" -> {}
      [] OTHER ->
            (IF ~Length(data, EMAIL_MAX_LENGTH) THEN {"too_long"} ELSE {})
            \cup (IF ~Email(data) THEN {"invalid_email"} ELSE {})
            \cup validate_guest_email(data, object_data, rows)

\* The form without the rule on the parts of the programme.
validate_guest_present_dinner_off(data) == {}

\* RSVPForm.validate_guest_present_dinner
validate_guest_present_dinner(data) ==
    LET any_program_item_present ==
            \/ data.guest_present_ceremony = TRUE
            \/ data.guest_present_reception = TRUE
            \/ data.guest_present_dinner = TRUE
    IN  IF data.guest_present = TRUE /\ any_program_item_present = FALSE
        THEN {"min_one_part"}
        ELSE {}

\* RSVPForm.validate_guest_diet_vega
validate_guest_diet_vega(data) ==
    LET any_diet_present ==
            \/ data.guest_diet_meat = TRUE
            \/ data.guest_diet_fish = TRUE
            \/ data.guest_diet_vega = TRUE
    IN  IF data.guest_present_dinner = TRUE /\ any_diet_present = FALSE
        THEN {"min_one_diet"}
        ELSE {}

\* The form without the rule on the partner's diet.
validate_partner_diet_vega_off(data) == {}

\* RSVPForm.validate_partner_diet_vega
validate_partner_diet_vega(data) ==
    LET any_diet_present ==
            \/ data.partner_diet_meat = TRUE
            \/ data.partner_diet_fish = TRUE
            \/ data.partner_diet_vega = TRUE
    IN  IF data.guest_present_dinner = TRUE /\ any_diet_present = FALSE
        THEN {"min_one_diet"}
        ELSE {}

\* Form.validate: every field of the form runs its chain, and the inline
\* validate_<field> of a field runs only when the form has that field; the
\* result is the set of <<field, message>> errors.  guest_present is a
\* RadioField with InputRequired.
FormErrors(sub, obj, with_partner, rows) ==
    LET data == FormData(sub, obj)
        on(field, msgs) == {<<field, m>> : m \in msgs}
    IN  on("guest_first_name", NameErrors(sub.guest_first_name, data.guest_first_name))
        \cup on("guest_last_name", NameErrors(sub.guest_last_name, data.guest_last_name))
        \cup on("guest_present",
                IF InputRequired(sub.guest_present) THEN {} ELSE {"required"})
        \cup on("guest_present_dinner", validate_guest_present_dinner(data))
        \cup on("guest_email",
                EmailErrors(sub.guest_email, data.guest_email, data.guest_present,
                            obj.guest_email, rows))
        \cup on("guest_diet_vega", validate_guest_diet_vega(data))
        \cup (IF "partner_first_name" \in FormFields(with_partner)
              THEN on("partner_first_name",
                      PartnerNameErrors(sub.partner_first_name,
                                        data.partner_first_name, data.guest_present))
              ELSE {})
        \cup (IF "partner_last_name" \in FormFields(with_partner)
              THEN on("partner_last_name",
                      PartnerNameErrors(sub.partner_last_name,
                                        data.partner_last_name, data.guest_present))
              ELSE {})
        \cup (IF "partner_diet_vega" \in FormFields(with_partner)
              THEN on("partner_diet_vega", validate_partner_diet_vega(data))
              ELSE {})

\* Form.populate_obj: every field of the form is set on the instance; the
\* partner diet columns are nullable, a value b is held as <<b>>.
populate_obj(obj, sub, with_partner) ==
    LET data == FormData(sub, obj)
        held(c) ==
            IF c \in {"partner_diet_meat", "partner_diet_fish", "partner_diet_vega"}
            THEN <<data[c]>>
            ELSE data[c]
    IN  [c \in Columns |->
            IF c \in FormFields(with_partner) THEN held(c) ELSE obj[c]]

(***************************************************************************)
(* generate_rsvp_code (database.py)                                        *)
(***************************************************************************)

Chars(s) == {s[i] : i \in 1..Len(s)}

\* The loop without the lookup of the full candidate.
generate_rsvp_code_step_unchecked(rsvp_code, char, rows) ==
    IF char \in Chars(rsvp_code) THEN rsvp_code ELSE Append(rsvp_code, char)

\* One pass of the while loop with `char` drawn by the random source: the
\* code the next pass starts from.  A drawn character already in the code is
\* skipped; a full candidate that some row has starts over from "".
generate_rsvp_code_step(rsvp_code, char, rows) ==
    IF char \in Chars(rsvp_code)
    THEN rsvp_code
    ELSE IF /\ Len(Append(rsvp_code, char)) = RSVP_CODE_LENGTH
            /\ get_by_rsvp_code(rows, Append(rsvp_code, char)) # {}
         THEN <<>>
         ELSE Append(rsvp_code, char)

(***************************************************************************)
(* Requests (app.py, views.py)                                             *)
(***************************************************************************)

\* The clients whose requests may be in progress at the same time.
Reqs == {1, 2}

\* The configured RSVP_DEADLINE, as a day number.
RSVP_DEADLINE == 2

\* build_request_context: g.deadline_passed
deadline_passed(today) == today >= RSVP_DEADLINE

\* The form enabled for everyone on every day.
form_enabled_open(user, today) == TRUE

\* form_enabled in both handlers
form_enabled(user, today) == user = "ADMIN" \/ ~deadline_passed(today)

checkbox(on) == IF on THEN <<"y">> ELSE Absent

\* A POST body, field by field.
RawSub(first, last, present, parts, email, diet, pfirst, plast, pdiet) ==
    [guest_first_name |-> first, guest_last_name |-> last,
     guest_present |-> present,
     guest_present_ceremony |-> checkbox("ceremony" \in parts),
     guest_present_reception |-> checkbox("reception" \in parts),
     guest_present_dinner |-> checkbox("dinner" \in parts),
     guest_email |-> email,
     guest_diet_meat |-> checkbox("meat" \in diet),
     guest_diet_fish |-> checkbox("fish" \in diet),
     guest_diet_vega |-> checkbox("vega" \in diet),
     partner_first_name |-> pfirst, partner_last_name |-> plast,
     partner_diet_meat |-> checkbox("meat" \in pdiet),
     partner_diet_fish |-> checkbox("fish" \in pdiet),
     partner_diet_vega |-> checkbox("vega" \in pdiet)]

NoSub == RawSub(Absent, Absent, Absent, {}, Absent, {}, Absent, Absent, {})

\* A client with no request in progress.
Idle ==
    [pc |-> "idle", view |-> "", with_partner |-> FALSE, sub |-> NoSub,
     obj |-> NewRSVP(FALSE), rsvp_code |-> <<>>, user |-> "", today |-> 0,
     deadline_passed |-> FALSE, form_enabled |-> FALSE,
     errors |-> {}, sent |-> <<>>, outcome |-> ""]

\* The creates that passed validation and have not inserted yet.
Flushing == {r \in Reqs : req[r].pc \in {"generate", "insert"}}

\* The largest id the table is let to hand out.
MaxId == 2

Init ==
    /\ store = {}
    /\ req = [r \in Reqs |-> Idle]

\* register_rsvp up to db.session.add: the form is built without an
\* instance, and a submission that is enabled and valid goes on to the flush.
Register(r, with_partner, sub, user, today) ==
    LET errors == FormErrors(sub, NewRSVP(with_partner), with_partner, store)
        enabled == form_enabled(user, today)
        started ==
            [Idle EXCEPT !.view = "register", !.with_partner = with_partner,
                         !.sub = sub, !.obj = NewRSVP(with_partner),
                         !.user = user, !.today = today,
                         !.deadline_passed = deadline_passed(today),
                         !.form_enabled = enabled]
    IN  /\ req[r].pc = "idle"
        /\ IF enabled /\ errors = {}
           THEN /\ NewId(store) + Cardinality(Flushing) <= MaxId
                /\ req' = [req EXCEPT ![r] = [started EXCEPT !.pc = "generate"]]
           ELSE req' = [req EXCEPT ![r] =
                          [started EXCEPT
                              !.pc = "done", !.outcome = "render",
                              !.errors = IF enabled THEN errors ELSE {}]]
        /\ UNCHANGED store

\* The column default of rsvp_code, run by the flush: one pass of the loop
\* of generate_rsvp_code.
Generate(r, char) ==
    LET rsvp_code == generate_rsvp_code_step(req[r].rsvp_code, char, store)
    IN  /\ req[r].pc = "generate"
        /\ req' = [req EXCEPT
                     ![r].rsvp_code = rsvp_code,
                     ![r].pc = IF Len(rsvp_code) < RSVP_CODE_LENGTH
                               THEN "generate"
                               ELSE "insert"]
        /\ UNCHANGED store

\* The row that register_rsvp adds to the session.
NewRow(r, rows) ==
    [populate_obj(req[r].obj, req[r].sub, req[r].with_partner) EXCEPT
        !.id = NewId(rows), !.rsvp_code = req[r].rsvp_code]

\* db.session.commit() of register_rsvp: the INSERT, which the table's
\* unique constraints may refuse (IntegrityError, nothing is written).
Insert(r) ==
    /\ req[r].pc = "insert"
    /\ IF ConstraintsHold(NewRow(r, store), store)
       THEN /\ store' = store \cup {NewRow(r, store)}
            /\ req' = [req EXCEPT ![r].pc = "committed",
                                  ![r].obj = NewRow(r, store)]
       ELSE /\ store' = store
            /\ req' = [req EXCEPT ![r].pc = "done",
                                  ![r].outcome = "IntegrityError"]

\* After the commit the session reloads the instance on its first read.
Reloaded(r) == {row \in store : row.id = req[r].obj.id}

\* The confirmation sent whatever the answer.
wants_confirmation_always(rsvp_instance) == TRUE

\* if rsvp_instance.guest_present is True
wants_confirmation(rsvp_instance) == rsvp_instance.guest_present = TRUE

\* send_confirmation_email(email_address=..., first_name=..., rsvp_code=...):
\* one attempt, which the mail transport lets through or answers by raising.
Confirmation(rsvp_instance, raised) ==
    [email_address |-> rsvp_instance.guest_email,
     first_name |-> rsvp_instance.guest_first_name,
     rsvp_code |-> rsvp_instance.rsvp_code,
     raised |-> raised]

\* The except branch without the delete.
delete_instance_skipped(rows, rsvp_instance) == rows

\* A delete that is not narrowed to the instance.
delete_instance_unfiltered(rows, rsvp_instance) == {}

\* except Exception: db.session.delete(rsvp_instance); db.session.commit()
delete_instance(rows, rsvp_instance) == {row \in rows : row.id # rsvp_instance.id}

\* No confirmation is due: flash and redirect.
Redirect(r) ==
    /\ req[r].pc = "committed"
    /\ \E rsvp_instance \in Reloaded(r) :
        /\ ~wants_confirmation(rsvp_instance)
        /\ req' = [req EXCEPT ![r].pc = "done", ![r].outcome = "redirect",
                              ![r].obj = rsvp_instance]
    /\ UNCHANGED store

\* The confirmation is sent: flash and redirect.
SendOk(r) ==
    /\ req[r].pc = "committed"
    /\ \E rsvp_instance \in Reloaded(r) :
        /\ wants_confirmation(rsvp_instance)
        /\ req' = [req EXCEPT ![r].pc = "done", ![r].outcome = "redirect",
                              ![r].obj = rsvp_instance,
                              ![r].sent = Append(@, Confirmation(rsvp_instance, FALSE))]
    /\ UNCHANGED store

\* Sending raises: the instance is deleted, the deletion committed and the
\* exception raised again.
SendFail(r) ==
    /\ req[r].pc = "committed"
    /\ \E rsvp_instance \in Reloaded(r) :
        /\ wants_confirmation(rsvp_instance)
        /\ store' = delete_instance(store, rsvp_instance)
        /\ req' = [req EXCEPT ![r].pc = "done", ![r].outcome = "error",
                              ![r].obj = rsvp_instance,
                              ![r].sent = Append(@, Confirmation(rsvp_instance, TRUE))]

\* manage_rsvp up to db.session.add: the instance is looked up by its code,
\* the form is built on it, and a submission that is enabled and valid goes
\* on to the commit.
Manage(r, rsvp_code, sub, user, today) ==
    /\ req[r].pc = "idle"
    /\ UNCHANGED store
    /\ IF get_by_rsvp_code(store, rsvp_code) = {}
       THEN req' = [req EXCEPT ![r] =
                      [Idle EXCEPT !.pc = "done", !.view = "manage",
                                   !.outcome = "NotFound"]]
       ELSE \E rsvp_instance \in get_by_rsvp_code(store, rsvp_code) :
              LET with_partner == rsvp_instance.with_partner
                  errors == FormErrors(sub, rsvp_instance, with_partner, store)
                  enabled == form_enabled(user, today)
                  started ==
                      [Idle EXCEPT !.view = "manage",
                                   !.with_partner = with_partner,
                                   !.sub = sub, !.obj = rsvp_instance,
                                   !.user = user, !.today = today,
                                   !.deadline_passed = deadline_passed(today),
                                   !.form_enabled = enabled]
              IN  IF enabled /\ errors = {}
                  THEN req' = [req EXCEPT ![r] = [started EXCEPT !.pc = "update"]]
                  ELSE req' = [req EXCEPT ![r] =
                                 [started EXCEPT
                                     !.pc = "done", !.outcome = "render",
                                     !.errors = IF enabled THEN errors ELSE {}]]

\* The row an UPDATE leaves: the unit of work writes the columns that
\* populate_obj changed on the loaded instance, and no others.
UpdatedRow(row, loaded, populated) ==
    [c \in Columns |-> IF populated[c] # loaded[c] THEN populated[c] ELSE row[c]]

\* db.session.commit() of manage_rsvp: nothing to write when no column
\* changed; otherwise the UPDATE of the row with the instance's id, which
\* fails when the row is gone (StaleDataError) or a unique constraint
\* refuses it (IntegrityError).
Update(r) ==
    LET loaded == req[r].obj
        populated == populate_obj(loaded, req[r].sub, req[r].with_partner)
        rows == {row \in store : row.id = loaded.id}
    IN  /\ req[r].pc = "update"
        /\ IF populated = loaded
           THEN /\ store' = store
                /\ req' = [req EXCEPT ![r].pc = "done", ![r].outcome = "redirect"]
           ELSE IF rows = {}
           THEN /\ store' = store
                /\ req' = [req EXCEPT ![r].pc = "done",
                                      ![r].outcome = "StaleDataError"]
           ELSE \E row \in rows :
                  LET updated == UpdatedRow(row, loaded, populated)
                  IN  IF ConstraintsHold(updated, store \ {row})
                      THEN /\ store' = (store \ {row}) \cup {updated}
                           /\ req' = [req EXCEPT ![r].pc = "done",
                                                 ![r].outcome = "redirect"]
                      ELSE /\ store' = store
                           /\ req' = [req EXCEPT ![r].pc = "done",
                                                 ![r].outcome = "IntegrityError"]

\* The response is out; the client may send its next request.
Finish(r) ==
    /\ req[r].pc = "done"
    /\ req' = [req EXCEPT ![r] = Idle]
    /\ UNCHANGED store

(***************************************************************************)
(* Inputs                                                                  *)
(***************************************************************************)

\* The letters the random source is let to draw for the next character of a
\* code: every code starts with "AB" and ends with "CD" or "DC", and a letter
\* that the code already has may be drawn again.
Drawn(rsvp_code) ==
    CASE Len(rsvp_code) = 0 -> {"A"}
      [] Len(rsvp_code) = 1 -> {"A", "B"}
      [] OTHER -> {"A", "B", "C", "D"}

\* A code that no row has.
UnknownCode == <<"Z", "Z", "Z", "Z">>

KnownCodes == {row.rsvp_code : row \in store}

FlowEmails == {<<"a", "@", "x">>, <<"b", "@", "x">>}

\* Submissions that differ in the attendance answer and the address: a guest
\* who comes gives one of two addresses, a guest who does not gives none.
FlowSubs ==
    {RawSub(<<"N">>, <<"N">>, <<"True">>, {"ceremony"}, email, {},
            <<"P">>, <<"P">>, {}) : email \in FlowEmails}
    \cup {RawSub(<<"N">>, <<"N">>, <<"False">>, {}, <<>>, {}, <<"P">>, <<"P">>, {})}

\* The requests of the clients `reqs`, with their inputs drawn from the
\* given sets.
Requests(reqs, partners, subs, users, days) ==
    \E r \in reqs :
        \/ \E with_partner \in partners, sub \in subs, user \in users, today \in days :
              Register(r, with_partner, sub, user, today)
        \/ \E rsvp_code \in KnownCodes \cup {UnknownCode}, sub \in subs,
              user \in users, today \in days :
              Manage(r, rsvp_code, sub, user, today)
        \/ \E char \in Drawn(req[r].rsvp_code) : Generate(r, char)
        \/ Insert(r)
        \/ Redirect(r)
        \/ SendOk(r)
        \/ SendFail(r)
        \/ Update(r)
        \/ Finish(r)

\* Two clients at once, before the deadline.
Next == Requests(Reqs, {FALSE}, FlowSubs, {"anonymous"}, {1})

Spec == Init /\ [][Next]_vars

\* Addresses as they are typed: none, only a blank, an address, the same
\* address in another spelling, another address, and one that is none.
RawEmails ==
    {<<>>, <<" ">>, <<"a", "@", "x">>, <<" ", "A", "@", "x">>,
     <<"b", "@", "x">>, <<"a">>}

\* Submissions that differ in the attendance answer and the typed address.
EmailSubs ==
    {RawSub(<<"N">>, <<"N">>, present, {"ceremony"}, email, {},
            <<"P">>, <<"P">>, {}) :
        present \in {<<"True">>, <<"False">>}, email \in RawEmails}

\* One client at a time, before the deadline, with the typed addresses.
NextEmail == Requests({1}, {FALSE}, EmailSubs, {"anonymous"}, {1})

SpecEmail == Init /\ [][NextEmail]_vars

Parts == {"ceremony", "reception", "dinner"}

Diets == {"meat", "fish", "vega"}

\* Submissions that differ in the attendance answer and the parts attended.
PartSubs ==
    {RawSub(<<" ", "N">>, <<"N", " ">>, present, parts, <<"a", "@", "x">>, diet,
            <<"P">>, <<"P">>, {"fish"}) :
        present \in {<<"True">>, <<"False">>, Absent},
        parts \in SUBSET Parts, diet \in {{}, {"meat"}}}

\* One client at a time, before the deadline, alone or with a partner.
NextParts == Requests({1}, BOOLEAN, PartSubs, {"anonymous"}, {1})

SpecParts == Init /\ [][NextParts]_vars

\* Submissions that differ in the diets of the guest and of the partner.
DietSubs ==
    {RawSub(<<"N">>, <<"N">>, <<"True">>, parts, <<"a", "@", "x">>, diet,
            <<"P">>, <<"P">>, pdiet) :
        parts \in {{"ceremony"}, {"dinner"}},
        diet \in SUBSET Diets, pdiet \in SUBSET Diets}
    \cup {RawSub(<<"N">>, <<"N">>, <<"False">>, {}, <<"a", "@", "x">>, {},
                 <<"P">>, <<"P">>, {})}

NextDiets == Requests({1}, BOOLEAN, DietSubs, {"anonymous"}, {1})

SpecDiets == Init /\ [][NextDiets]_vars

\* Names as they are typed: nothing, only a blank, a name.
RawNames == {<<>>, <<" ">>, <<"N">>}

\* Submissions that differ in the attendance answer and the typed names.
NameSubs ==
    {RawSub(first, last, present, {"ceremony"}, <<"a", "@", "x">>, {},
            pfirst, plast, {"fish"}) :
        first \in RawNames, last \in RawNames, present \in {<<"True">>, <<"False">>},
        pfirst \in RawNames, plast \in RawNames}

NextNames == Requests({1}, BOOLEAN, NameSubs, {"anonymous"}, {1})

SpecNames == Init /\ [][NextNames]_vars

\* Who sends a request: nobody authenticated, or the administrator.
Users == {"anonymous", "ADMIN"}

\* The day before the deadline, the day of the deadline, the day after.
Days == {RSVP_DEADLINE - 1, RSVP_DEADLINE, RSVP_DEADLINE + 1}

\* One client at a time, any of the users, on any of the days.
NextDeadline == Requests({1}, {FALSE}, FlowSubs, Users, Days)

SpecDeadline == Init /\ [][NextDeadline]_vars

(***************************************************************************)
(* Properties                                                              *)
(***************************************************************************)

\* C1: a create inserts one row, and when sending its confirmation raises,
\* that row is deleted before the request ends with the error: what the
\* request leaves in the table is what it found there.
C1_FailedSendRollsBack ==
    [][\A r \in Reqs :
        /\ (req[r].pc = "insert" /\ req'[r].pc = "committed")
            => /\ store' = store \cup {req'[r].obj}
               /\ \A row \in store : row.id # req'[r].obj.id
        /\ (/\ req[r].pc = "committed"
            /\ req'[r].sent # req[r].sent
            /\ req'[r].sent[Len(req'[r].sent)].raised)
            => /\ req'[r].pc = "done"
               /\ req'[r].outcome = "error"
               /\ \E row \in store : row.id = req[r].obj.id
               /\ store' = {row \in store : row.id # req[r].obj.id}]_vars

\* A create ended with the error of a failed send, and the table is empty.
C1_Witness ==
    \E r \in Reqs :
        /\ req[r].pc = "done"
        /\ req[r].view = "register"
        /\ req[r].outcome = "error"
        /\ req[r].sent # <<>>
        /\ store = {}

UniqueCodes(rows) ==
    \A a \in rows, b \in rows : a.rsvp_code = b.rsvp_code => a = b

\* C2: no two rows share a code, and an INSERT whose code a row already has
\* is refused with a conflict error and writes nothing.
C2_CodesUnique ==
    [][/\ UniqueCodes(store')
       /\ \A r \in Reqs :
            (/\ req[r].pc = "insert"
             /\ req'[r].pc # "insert"
             /\ get_by_rsvp_code(store, req[r].rsvp_code) # {})
            => (req'[r].outcome = "IntegrityError" /\ store' = store)]_vars

\* A create without an address was refused at its commit: the code it had
\* generated is the code of a row.
C2_Witness ==
    \E r \in Reqs :
        /\ req[r].pc = "done"
        /\ req[r].view = "register"
        /\ req[r].outcome = "IntegrityError"
        /\ FormData(req[r].sub, req[r].obj).guest_email = None
        /\ get_by_rsvp_code(store, req[r].rsvp_code) # {}

UniqueEmails(rows) ==
    \A a \in rows, b \in rows :
        (a.guest_email # None /\ a.guest_email = b.guest_email) => a = b

\* C4: no two rows share an address other than NULL, and a commit that would
\* write an address another row has is refused and writes nothing.
C4_EmailsUnique ==
    [][/\ UniqueEmails(store')
       /\ \A r \in Reqs :
            LET email == FormData(req[r].sub, req[r].obj).guest_email
            IN  /\ (/\ req[r].pc = "insert"
                    /\ req'[r].pc # "insert"
                    /\ email # None
                    /\ get_by_guest_email(store, email) # {})
                    => (req'[r].outcome = "IntegrityError" /\ store' = store)
                /\ (/\ req[r].pc = "update"
                    /\ req'[r].pc # "update"
                    /\ email # None
                    /\ email # req[r].obj.guest_email
                    /\ \E row \in store : row.id = req[r].obj.id
                    /\ \E row \in store :
                         row.id # req[r].obj.id /\ row.guest_email = email)
                    => (req'[r].outcome = "IntegrityError" /\ store' = store)]_vars

\* An update that had passed validation was refused at its commit: the
\* address it brings is another row's.
C4_Witness ==
    \E r \in Reqs :
        /\ req[r].pc = "done"
        /\ req[r].view = "manage"
        /\ req[r].outcome = "IntegrityError"
        /\ \E row \in store :
             /\ row.id # req[r].obj.id
             /\ row.guest_email = FormData(req[r].sub, req[r].obj).guest_email

\* The step in which client r sends a request whose form is enabled and
\* whose record, for an update, is found: the handler validates it.
Validates(r) ==
    /\ req[r].pc = "idle"
    /\ req'[r].pc # "idle"
    /\ req'[r].form_enabled

Rejected(r, error) ==
    /\ req'[r].pc = "done"
    /\ req'[r].outcome = "render"
    /\ error \in req'[r].errors
    /\ store' = store

\* C5: an update that brings the address its own record has, in any
\* spelling, gets no uniqueness error; a create or update that brings
\* another address, which some other row has, fails validation with that
\* error and writes nothing.
C5_EmailUniquenessCheck ==
    [][\A r \in Reqs :
        Validates(r) =>
            LET email == FormData(req'[r].sub, req'[r].obj).guest_email
                taken == <<"guest_email", "email_taken">>
            IN  /\ (req'[r].view = "manage" /\ email = req'[r].obj.guest_email)
                    => taken \notin req'[r].errors
                /\ (/\ email # None
                    /\ email # req'[r].obj.guest_email
                    /\ \E row \in store :
                         row.id # req'[r].obj.id /\ row.guest_email = email)
                    => Rejected(r, taken)]_vars

\* An update went through that brought, in another spelling, the address
\* its record already had.
C5_Witness ==
    \E r \in Reqs :
        /\ req[r].pc = "done"
        /\ req[r].view = "manage"
        /\ req[r].outcome = "redirect"
        /\ req[r].obj.guest_email # None
        /\ req[r].sub.guest_email # req[r].obj.guest_email
        /\ FormData(req[r].sub, req[r].obj).guest_email = req[r].obj.guest_email

AttendsSomePart(data) ==
    \/ data.guest_present_ceremony
    \/ data.guest_present_reception
    \/ data.guest_present_dinner

\* C6: a create or update in which the guest comes and attends no part of
\* the programme fails validation with the error on the parts and leaves the
\* table as it was; every row of a guest who comes has a part attended.
C6_MinOnePart ==
    [][/\ \A row \in store' : row.guest_present => AttendsSomePart(row)
       /\ \A r \in Reqs :
            Validates(r) =>
                LET data == FormData(req'[r].sub, req'[r].obj)
                IN  (data.guest_present /\ ~AttendsSomePart(data))
                    => Rejected(r, <<"guest_present_dinner", "min_one_part">>)]_vars

\* An update of a guest who came to the ceremony, now coming to nothing, was
\* rejected, and the row is as it was loaded.
C6_Witness ==
    \E r \in Reqs :
        /\ req[r].pc = "done"
        /\ req[r].view = "manage"
        /\ req[r].outcome = "render"
        /\ <<"guest_present_dinner", "min_one_part">> \in req[r].errors
        /\ req[r].sub.guest_present = <<"True">>
        /\ req[r].obj.guest_present
        /\ req[r].obj \in store

GuestDiet(data) ==
    data.guest_diet_meat \/ data.guest_diet_fish \/ data.guest_diet_vega

\* C7: every row of a guest at the dinner has a diet of the guest and, with
\* a partner, a diet of the partner; a create or update that breaks either
\* rule fails validation with the error on the diet.
C7_DietAtDinner ==
    [][/\ \A row \in store' :
            row.guest_present_dinner =>
                /\ GuestDiet(row)
                /\ row.with_partner =>
                      \/ row.partner_diet_meat = <<TRUE>>
                      \/ row.partner_diet_fish = <<TRUE>>
                      \/ row.partner_diet_vega = <<TRUE>>
       /\ \A r \in Reqs :
            Validates(r) =>
                LET data == FormData(req'[r].sub, req'[r].obj)
                IN  /\ (data.guest_present_dinner /\ ~GuestDiet(data))
                        => Rejected(r, <<"guest_diet_vega", "min_one_diet">>)
                    /\ (/\ req'[r].with_partner
                        /\ data.guest_present_dinner
                        /\ ~data.partner_diet_meat
                        /\ ~data.partner_diet_fish
                        /\ ~data.partner_diet_vega)
                        => Rejected(r, <<"partner_diet_vega", "min_one_diet">>)]_vars

\* A submission for the dinner with a partner, with a diet of the guest and
\* none of the partner, was rejected for the partner's diet alone.
C7_Witness ==
    \E r \in Reqs :
        /\ req[r].pc = "done"
        /\ req[r].with_partner
        /\ req[r].outcome = "render"
        /\ req[r].errors = {<<"partner_diet_vega", "min_one_diet">>}

\* C8: every row of a guest who comes alone has empty partner names and
\* NULL partner diets, whatever was submitted, and no submission for such a
\* guest gets an error on a partner field.
C8_PartnerFieldsUnused ==
    [][/\ \A row \in store' :
            ~row.with_partner =>
                /\ row.partner_first_name = <<>>
                /\ row.partner_last_name = <<>>
                /\ row.partner_diet_meat = Null
                /\ row.partner_diet_fish = Null
                /\ row.partner_diet_vega = Null
       /\ \A r \in Reqs :
            (Validates(r) /\ ~req'[r].with_partner) =>
                \A error \in req'[r].errors : error[1] \notin PartnerColumns]_vars

\* A guest who comes alone was registered with a submission that had a
\* partner name and a partner diet in it.
C8_Witness ==
    \E r \in Reqs :
        /\ req[r].pc = "done"
        /\ req[r].outcome = "redirect"
        /\ ~req[r].with_partner
        /\ req[r].sub.partner_first_name = <<"N">>
        /\ req[r].sub.partner_diet_fish # Absent
        /\ \E row \in store :
            /\ row.id = req[r].obj.id
            /\ row.partner_first_name = <<>>
            /\ row.partner_diet_fish = Null

\* C9: no row has an empty guest first or last name, and no row of a guest
\* who comes with a partner has an empty partner name.
C9_NamesNotEmpty ==
    \A row \in store :
        /\ row.guest_first_name # <<>>
        /\ row.guest_last_name # <<>>
        /\ (row.with_partner /\ row.guest_present) =>
              /\ row.partner_first_name # <<>>
              /\ row.partner_last_name # <<>>

\* C10: a create that ended with a record of a guest who comes has made one
\* attempt to send, to the record's address and with the record's code; a
\* create of a guest who does not come has made none, and neither has an
\* update, at any point of it.
C10_ConfirmationOncePerCreate ==
    \A r \in Reqs :
        /\ req[r].pc # "done" => req[r].sent = <<>>
        /\ req[r].view = "manage" => req[r].sent = <<>>
        /\ (req[r].pc = "done" /\ req[r].view = "register") =>
              IF /\ req[r].outcome \in {"redirect", "error"}
                 /\ FormData(req[r].sub, NewRSVP(req[r].with_partner)).guest_present
              THEN /\ req[r].obj.guest_present
                   /\ Len(req[r].sent) = 1
                   /\ req[r].sent[1].email_address = req[r].obj.guest_email
                   /\ req[r].sent[1].rsvp_code = req[r].obj.rsvp_code
                   /\ req[r].sent[1].raised = (req[r].outcome = "error")
                   /\ req[r].outcome = "redirect" => req[r].obj \in store
              ELSE req[r].sent = <<>>

\* An update that turned the answer of a record from no to yes went through
\* and sent nothing.
C10_Witness ==
    \E r \in Reqs :
        /\ req[r].pc = "done"
        /\ req[r].view = "manage"
        /\ req[r].outcome = "redirect"
        /\ ~req[r].obj.guest_present
        /\ req[r].sent = <<>>
        /\ \E row \in store : row.id = req[r].obj.id /\ row.guest_present

\* The step in which client r sends a request to one of the two handlers
\* and, for an update, the record is found.
Handles(r) ==
    /\ req[r].pc = "idle"
    /\ req'[r].pc # "idle"
    /\ req'[r].outcome # "NotFound"

\* C11: with the deadline flag of the request set, a create or update of
\* anyone but the administrator is not validated and writes nothing: the
\* form is rendered again, disabled and without errors, the table is as it
\* was and nothing is sent; the administrator's form is enabled, and a valid
\* submission of theirs goes on to the commit and ends with the record in
\* the table.
C11_DeadlineGate ==
    [][\A r \in Reqs :
        /\ (Handles(r) /\ req'[r].deadline_passed) =>
              IF req'[r].user = "ADMIN"
              THEN /\ req'[r].form_enabled
                   /\ (FormErrors(req'[r].sub, req'[r].obj,
                                  req'[r].with_partner, store) = {})
                        = (req'[r].pc \in {"generate", "update"})
              ELSE /\ ~req'[r].form_enabled
                   /\ req'[r].pc = "done"
                   /\ req'[r].outcome = "render"
                   /\ req'[r].errors = {}
                   /\ req'[r].sent = <<>>
                   /\ store' = store
        /\ (/\ req'[r].pc = "done"
            /\ req'[r].deadline_passed
            /\ req'[r].user = "ADMIN"
            /\ req'[r].outcome # "render")
            => /\ req'[r].outcome \in {"redirect", "error"}
               /\ req'[r].outcome = "redirect" =>
                    \E row \in store' :
                       /\ row.id = req'[r].obj.id
                       /\ row.guest_present
                            = FormData(req'[r].sub, req'[r].obj).guest_present
                       /\ row.guest_email
                            = FormData(req'[r].sub, req'[r].obj).guest_email]_vars

\* After the deadline the administrator has registered a guest, and a valid
\* update of that record by someone else is rendered back, disabled.
C11_Witness ==
    \E r \in Reqs :
        /\ req[r].pc = "done"
        /\ req[r].view = "manage"
        /\ req[r].user = "anonymous"
        /\ req[r].deadline_passed
        /\ req[r].outcome = "render"
        /\ ~req[r].form_enabled
        /\ FormErrors(req[r].sub, req[r].obj, req[r].with_partner, store) = {}
        /\ populate_obj(req[r].obj, req[r].sub, req[r].with_partner) # req[r].obj
        /\ req[r].obj \in store
        /\ \A row \in store : row.id <= req[r].obj.id

\* C12: a row leaves the table only in the step in which the create that
\* inserted it fails to send its confirmation; every other step keeps each
\* row's id and code, so the record of a create that has redirected stays,
\* under its code, whatever creates and updates follow.
C12_RecordsStay ==
    [][/\ \A row \in store :
            \/ \E kept \in store' :
                  kept.id = row.id /\ kept.rsvp_code = row.rsvp_code
            \/ \E r \in Reqs :
                  /\ req[r].view = "register"
                  /\ req[r].pc = "committed"
                  /\ req[r].obj.id = row.id
                  /\ req[r].rsvp_code = row.rsvp_code
                  /\ req'[r].pc = "done"
                  /\ req'[r].outcome = "error"
       /\ \A r \in Reqs :
            (/\ req'[r].pc = "done"
             /\ req'[r].view = "register"
             /\ req'[r].outcome = "redirect")
            => get_by_rsvp_code(store', req'[r].rsvp_code) # {}]_vars

\* A create has redirected and its client waits; meanwhile another create
\* failed to send and was rolled back, and the first record is in the table.
C12_Witness ==
    \E r \in Reqs, other \in Reqs :
        /\ r # other
        /\ req[r].pc = "done"
        /\ req[r].view = "register"
        /\ req[r].outcome = "redirect"
        /\ req[other].pc = "done"
        /\ req[other].view = "register"
        /\ req[other].outcome = "error"
        /\ req[other].obj.id > req[r].obj.id
        /\ get_by_rsvp_code(store, req[r].rsvp_code) # {}
        /\ get_by_rsvp_code(store, req[other].rsvp_code) = {}

\* C13: on every day up to and including the day of the deadline the flag
\* of a request is not set and the form of someone who is not the
\* administrator is enabled, so that their valid submission goes on to the
\* commit.
C13_OpenOnDeadlineDay ==
    \A r \in Reqs :
        (/\ req[r].pc # "idle"
         /\ req[r].outcome # "NotFound"
         /\ req[r].user = "anonymous"
         /\ req[r].today <= RSVP_DEADLINE)
        => /\ ~req[r].deadline_passed
           /\ req[r].form_enabled
           /\ (req[r].pc = "done" /\ req[r].outcome = "render")
                => req[r].errors # {}

\* C14: every row of a guest who comes has an address, neither NULL nor
\* empty; a create or update of a guest who comes whose address is missing,
\* empty or blank fails validation on the address and writes nothing; and
\* every confirmation that is sent has an address to go to.
C14_AttendingHasEmail ==
    [][/\ \A row \in store' :
            row.guest_present =>
                (row.guest_email # None /\ row.guest_email # <<>>)
       /\ \A r \in Reqs :
            /\ Validates(r) =>
                LET data == FormData(req'[r].sub, req'[r].obj)
                IN  (data.guest_present /\ data.guest_email = None)
                    => /\ req'[r].pc = "done"
                       /\ req'[r].outcome = "render"
                       /\ \E error \in req'[r].errors : error[1] = "guest_email"
                       /\ store' = store
            /\ \A i \in 1..Len(req'[r].sent) :
                 /\ req'[r].sent[i].email_address # None
                 /\ req'[r].sent[i].email_address # <<>>]_vars

\* An update that would have a declining guest without an address come,
\* giving only a blank for the address, was rejected: the row is as it was.
C14_Witness ==
    \E r \in Reqs :
        /\ req[r].pc = "done"
        /\ req[r].view = "manage"
        /\ req[r].outcome = "render"
        /\ req[r].sub.guest_present = <<"True">>
        /\ req[r].sub.guest_email = <<" ">>
        /\ ~req[r].obj.guest_present
        /\ req[r].obj.guest_email = None
        /\ req[r].obj \in store

====
